---- MODULE Spec2Model ----
(***************************************************************************)
(* Model of packages/server/src/websockets/websocketHandler.ts: the        *)
(* websocket transport of a tRPC router.  One state machine covers every   *)
(* accepted connection: context construction, the per-message async        *)
(* handler (split at its awaits), the per-connection subscriptions map,    *)
(* the close listeners, and the calls made on the socket.                  *)
(***************************************************************************)
EXTENDS Integers, Sequences, FiniteSets, TLC

\* ------------------------------------------------------------- bounds
NumConns == 2      \* accepted connections
MaxMsgs  == 2      \* message events fired, over all connections
MaxId    == 2      \* request ids 1..MaxId
MaxEmit  == 1      \* values one subscription produces

Conns == 1..NumConns
Ids   == 1..MaxId

\* ---------------------------------------------------------- constants
\* WEBSOCKET_STATUS_CODES.ABNORMAL_CLOSURE
ABNORMAL_CLOSURE == 1006
\* The value of the property ws.CLOSED read at line 143: the ready-state
\* constant of the WebSocket API (CONNECTING 0, OPEN 1, CLOSING 2, CLOSED 3).
\* It is the same number whatever state the socket is in.
ws_CLOSED == 3

ProcedureTypes == {"query", "mutation", "subscription"}

\* Values a query or mutation procedure returns.
ResultValues == {10}

VARIABLES
  ctxState,       \* [Conns -> position of the connection listener, lines 113-193]
  readyState,     \* [Conns -> ws.readyState]
  closeListeners, \* [Conns -> number of listeners ws.on('close') has attached]
  subscriptions,  \* [Conns -> the Map of line 114: id -> handle, 0 for no entry]
  wire,           \* [Conns -> calls made on the socket and its close event, in order]
  received,       \* [Conns -> number of 'message' events the socket has fired]
  tasks,          \* the invocations of the async message listener, in arrival order
  handles,        \* the Subscription objects the subscription procedures returned
  message,        \* one raw message followed through lines 137-140
  parsed,         \* what parseMessage made of it, and where the listener stands
  invoked         \* the operations callProcedure invoked on the caller for it

handlerVars == <<ctxState, readyState, closeListeners, subscriptions, wire,
                 received, tasks, handles>>

messageVars == <<message, parsed, invoked>>

vars == <<ctxState, readyState, closeListeners, subscriptions, wire, received,
          tasks, handles, message, parsed, invoked>>

\* --------------------------------------------------------- raw messages
\* A raw message as the 'message' event delivers it, described by what
\* parseMessage reads of it: typeof message, whether JSON.parse accepts it,
\* and the kinds of the deserialized value and of its fields.
RawMessage(ty, json, objK, method, paramsK, idK, id, pathK) ==
  [typeof |-> ty, json |-> json, obj |-> objK, method |-> method,
   params |-> paramsK, idKind |-> idK, id |-> id, path |-> pathK]

WellFormed(method, id) ==
  RawMessage("string", "ok", "object", method, "object", "number", id, "string")

WellFormedMessages == {WellFormed(m, i) : m \in ProcedureTypes, i \in Ids}

MalformedMessages ==
  { RawMessage("object", "ok", "object", "query", "object", "number", 1, "string"),
    RawMessage("string", "invalid", "object", "query", "object", "number", 1, "string"),
    RawMessage("string", "ok", "array", "query", "object", "number", 1, "string"),
    RawMessage("string", "ok", "null", "query", "object", "number", 1, "string"),
    RawMessage("string", "ok", "string", "query", "object", "number", 1, "string"),
    RawMessage("string", "ok", "object", "other", "object", "number", 1, "string"),
    RawMessage("string", "ok", "object", "undefined", "object", "number", 1, "string"),
    RawMessage("string", "ok", "object", "query", "array", "number", 1, "string"),
    RawMessage("string", "ok", "object", "query", "undefined", "number", 1, "string"),
    RawMessage("string", "ok", "object", "query", "object", "string", 1, "string"),
    RawMessage("string", "ok", "object", "query", "object", "NaN", 1, "string"),
    RawMessage("string", "ok", "object", "query", "object", "undefined", 1, "string"),
    RawMessage("string", "ok", "object", "query", "object", "number", 1, "number"),
    RawMessage("string", "ok", "object", "query", "object", "number", 1, "undefined") }

RawMessages == WellFormedMessages \cup MalformedMessages

\* ------------------------------------------------------------- parsing
\* The assert* helpers: TRUE when the assertion passes, FALSE when it throws.
assertIsObject(kind) == kind = "object"

assertIsProcedureType(method) == method \in ProcedureTypes

\* typeof obj !== 'number' || isNaN(obj): NaN is refused, the infinities
\* (typeof 'number', not NaN) pass.
assertIsRequestId(kind) == kind \in {"number", "Infinity"}

assertIsString(kind) == kind = "string"

\* parseMessage: "ok" when it returns a descriptor, else the error it throws.
\* The checks run in the order of the code; the first that fails decides.
parseMessage(raw) ==
  IF ~assertIsString(raw.typeof) THEN "Invalid string"
  ELSE IF raw.json # "ok" THEN "SyntaxError"
  ELSE IF ~assertIsObject(raw.obj) THEN "Not an object"
  ELSE IF ~assertIsProcedureType(raw.method) THEN "Invalid procedure type"
  ELSE IF ~assertIsObject(raw.params) THEN "Not an object"
  ELSE IF ~assertIsRequestId(raw.idKind) THEN "Invalid requestId"
  ELSE IF ~assertIsString(raw.path) THEN "Invalid string"
  ELSE "ok"

\* The position of the listener on one message and the descriptor
\* parseMessage returned (line 78), before anything is parsed.
NoInfo ==
  [pc |-> "parse", verdict |-> "pending", type |-> "none", id |-> 0,
   idKind |-> "none", input |-> "none", path |-> "none"]

\* Line 78: { type: method, id, input, path } of a message that passed.
descriptor(raw) ==
  [pc |-> "call", verdict |-> "ok", type |-> raw.method, id |-> raw.id,
   idKind |-> raw.idKind, input |-> raw.input, path |-> raw.pathValue]

\* A dispatcher that sends mutations to caller.query.
callProcedure_MutationAsQuery(d) ==
  IF d.type \in {"query", "mutation"}
    THEN [op |-> "query", path |-> d.path, input |-> d.input]
  ELSE IF d.type = "subscription"
    THEN [op |-> "subscription", path |-> d.path, input |-> d.input]
  ELSE [op |-> "throw", path |-> "none", input |-> "none"]

\* callProcedure: the operation it invokes on the caller, with its
\* arguments; op "throw" is the `Unknown procedure type` of line 99.
callProcedure(d) ==
  IF d.type = "query"
    THEN [op |-> "query", path |-> d.path, input |-> d.input]
  ELSE IF d.type = "mutation"
    THEN [op |-> "mutation", path |-> d.path, input |-> d.input]
  ELSE IF d.type = "subscription"
    THEN [op |-> "subscription", path |-> d.path, input |-> d.input]
  ELSE [op |-> "throw", path |-> "none", input |-> "none"]

\* ------------------------------------------------------ socket traffic
\* respond(id, {ok: true, data}): the JSON-RPC envelope of lines 130-135,
\* serialized and handed to ws.send.  task and sub record what caused the
\* call (0 for none); they are not part of the payload.
respond(id, data, task, sub) ==
  [ev |-> "send", jsonrpc |-> TRUE, hasId |-> TRUE, id |-> id, ok |-> TRUE,
   data |-> data, code |-> 0, task |-> task, sub |-> sub]

\* The error envelope of lines 165-175 and 181-191: the bare object
\* {ok: false, error} handed to ws.send, with no jsonrpc wrapper and no id.
ErrorEnvelope(task) ==
  [ev |-> "send", jsonrpc |-> FALSE, hasId |-> FALSE, id |-> 0, ok |-> FALSE,
   data |-> 0, code |-> 0, task |-> task, sub |-> 0]

\* ws.close(code)
CloseCall(code) ==
  [ev |-> "close", jsonrpc |-> FALSE, hasId |-> FALSE, id |-> 0, ok |-> FALSE,
   data |-> 0, code |-> code, task |-> 0, sub |-> 0]

\* The socket's 'close' event.
CloseEvent ==
  [ev |-> "closed", jsonrpc |-> FALSE, hasId |-> FALSE, id |-> 0, ok |-> FALSE,
   data |-> 0, code |-> 0, task |-> 0, sub |-> 0]

\* A connection-level catch that forgets ws.close.
ContextFailureCalls_NoClose == <<ErrorEnvelope(0)>>

\* A per-message catch that closes the socket as the connection-level one does.
MessageFailureCalls_Close(t) == <<ErrorEnvelope(t), CloseCall(ABNORMAL_CLOSURE)>>

\* What the connection-level catch does with the socket, in order.
ContextFailureCalls == <<ErrorEnvelope(0), CloseCall(ABNORMAL_CLOSURE)>>

\* What the per-message catch does with the socket.
MessageFailureCalls(t) == <<ErrorEnvelope(t)>>

\* ------------------------------------------------------- subscriptions
\* A Subscription object: destroy() calls, on('data') callbacks bound by
\* the handler, values produced so far.
NewHandle(c, id, t) ==
  [conn |-> c, id |-> id, task |-> t, destroyed |-> 0, listeners |-> 0,
   emitted |-> 0]

destroy(hs, h) == [hs EXCEPT ![h].destroyed = @ + 1]

EmptyRegistry == [i \in Ids |-> 0]

\* subscriptions.has(id)
has(subs, id) == subs[id] # 0

\* subscriptions.values()
values(subs) == {subs[i] : i \in Ids} \ {0}

\* The check written against the socket's state.
SocketClosedCheck_ReadyState(c) == readyState[c] = "CLOSED"

\* The check left out.
SocketClosedCheck_Never(c) == FALSE

\* The condition of line 143, `if (ws.CLOSED)`: the truthiness of the
\* constant, not a comparison with the socket's readyState.
SocketClosedCheck(c) == ws_CLOSED # 0

\* A handler that destroys the handle of a closed socket but does not return.
HandleAfterClosedCheck_NoReturn(hs, h) ==
  [hs EXCEPT ![h].destroyed = @ + 1, ![h].listeners = @ + 1]

\* Lines 143-146: the handle is destroyed and the handler returns.
HandleAfterClosedCheck(hs, h) == destroy(hs, h)

\* The message listener is attached at line 119, after createContext
\* resolved; a rejection skips it.
MessageListenerAttached_BeforeContext(c) == ctxState[c] # "none"

MessageListenerAttached(c) == ctxState[c] = "ready"

\* A handler that waits for the earlier messages of its connection.
Resumable_Serialized(t) ==
  /\ tasks[t].pc = "calling"
  /\ \A u \in 1..(t - 1) :
       tasks[u].conn = tasks[t].conn => tasks[u].pc \in {"done", "rejected"}

\* The await of line 140 resumes as soon as its own procedure settles,
\* whatever the other listeners of the connection are doing.
Resumable(t) == tasks[t].pc = "calling"

\* The registry after the handler accepted handle h for id (lines 151-158):
\* the handler binds the data callback and returns; it never calls
\* subscriptions.set.
RegistryAfterAccept(subs, id, h) == subs

\* A handler that registers the handle as soon as it has it.
RegistryAfterResume_SetFirst(c, id, h) ==
  [subscriptions[c] EXCEPT ![id] = h]

\* The registry of c after lines 142-159 ran for handle h: unchanged when
\* the handle is dropped or rejected, RegistryAfterAccept otherwise.
RegistryAfterResume(c, id, h) ==
  IF SocketClosedCheck(c) \/ has(subscriptions[c], id)
    THEN subscriptions[c]
    ELSE RegistryAfterAccept(subscriptions[c], id, h)

\* A close listener that tears down every subscription it can see.
closeListener_AllHandles(st) ==
  [hs   |-> [h \in DOMAIN st.hs |-> [st.hs[h] EXCEPT !.destroyed = @ + 1]],
   subs |-> EmptyRegistry]

\* One run of the close listener of lines 120-125.
closeListener(st) ==
  [hs   |-> [h \in DOMAIN st.hs |->
               IF h \in values(st.subs)
                 THEN [st.hs[h] EXCEPT !.destroyed = @ + 1]
                 ELSE st.hs[h]],
   subs |-> EmptyRegistry]

\* The 'close' event runs every attached listener, one after the other.
RECURSIVE emitClose(_, _)
emitClose(n, st) == IF n = 0 THEN st ELSE emitClose(n - 1, closeListener(st))

\* ------------------------------------------------------------ helpers
RECURSIVE TotalReceived(_)
TotalReceived(n) == IF n = 0 THEN 0 ELSE received[n] + TotalReceived(n - 1)

\* The handler makes `calls` on the socket of c: each is logged in order,
\* whatever the socket's state (a ws.send after the close is still a call
\* the handler made), and ws.close on an open socket starts the closing
\* handshake.
Send(c, calls) ==
  /\ wire' = [wire EXCEPT ![c] = @ \o calls]
  /\ readyState' = [readyState EXCEPT ![c] =
       IF @ = "OPEN" /\ \E k \in DOMAIN calls : calls[k].ev = "close"
         THEN "CLOSING" ELSE @]

Repeat(n, e) == [k \in 1..n |-> e]

\* ---------------------------------------------------------------- Init
Init ==
  /\ ctxState = [c \in Conns |-> "none"]
  /\ readyState = [c \in Conns |-> "CONNECTING"]
  /\ closeListeners = [c \in Conns |-> 0]
  /\ subscriptions = [c \in Conns |-> EmptyRegistry]
  /\ wire = [c \in Conns |-> <<>>]
  /\ received = [c \in Conns |-> 0]
  /\ tasks = <<>>
  /\ handles = <<>>
  /\ message = "none"
  /\ parsed = NoInfo
  /\ invoked = <<>>

\* ------------------------------------------------------------- actions
\* wss 'connection': the map is created and createContext is awaited.
Connect(c) ==
  /\ ctxState[c] = "none"
  /\ ctxState' = [ctxState EXCEPT ![c] = "pending"]
  /\ readyState' = [readyState EXCEPT ![c] = "OPEN"]
  /\ UNCHANGED <<closeListeners, subscriptions, wire, received, tasks, handles>>

\* createContext resolved: the caller is made and the message listener
\* attached (lines 117-119).
ContextResolve(c) ==
  /\ ctxState[c] = "pending"
  /\ ctxState' = [ctxState EXCEPT ![c] = "ready"]
  /\ UNCHANGED <<readyState, closeListeners, subscriptions, wire, received,
                 tasks, handles>>

\* createContext rejected: the catch of lines 178-193.
ContextReject(c) ==
  /\ ctxState[c] = "pending"
  /\ ctxState' = [ctxState EXCEPT ![c] = "failed"]
  /\ Send(c, ContextFailureCalls)
  /\ UNCHANGED <<closeListeners, subscriptions, received, tasks, handles>>

\* A 'message' event.  With no message listener attached (context pending
\* or failed) nothing runs.  Otherwise the listener runs to its first await:
\* it attaches a close listener, parses, and calls the procedure; a parse
\* failure is thrown outside the try block and rejects the listener's
\* promise, which nothing handles (pc "rejected", outcome "unhandled").
ReceiveMessage(c, raw) ==
  /\ ctxState[c] # "none"
  /\ readyState[c] \in {"OPEN", "CLOSING"}
  /\ TotalReceived(NumConns) < MaxMsgs
  /\ received' = [received EXCEPT ![c] = @ + 1]
  /\ IF ~MessageListenerAttached(c)
       THEN UNCHANGED <<closeListeners, tasks>>
       ELSE /\ closeListeners' = [closeListeners EXCEPT ![c] = @ + 1]
            /\ LET info == parseMessage(raw) IN
               tasks' = Append(tasks,
                 [conn |-> c, parse |-> info,
                  type |-> IF info = "ok" THEN raw.method ELSE "none",
                  id |-> IF info = "ok" THEN raw.id ELSE 0,
                  pc |-> IF info = "ok" THEN "calling" ELSE "rejected",
                  outcome |-> IF info = "ok" THEN "pending" ELSE "unhandled",
                  sub |-> 0])
  /\ UNCHANGED <<ctxState, readyState, wire, subscriptions, handles>>

\* caller.query / caller.mutation resolved: line 160.
ProcedureReturn(t, v) ==
  /\ Resumable(t)
  /\ tasks[t].type \in {"query", "mutation"}
  /\ tasks' = [tasks EXCEPT ![t].pc = "done", ![t].outcome = "returned"]
  /\ Send(tasks[t].conn, <<respond(tasks[t].id, v, t, 0)>>)
  /\ UNCHANGED <<ctxState, closeListeners, subscriptions, received, handles>>

\* The procedure (of any kind) threw: the catch of lines 164-176.
ProcedureThrow(t) ==
  /\ Resumable(t)
  /\ tasks' = [tasks EXCEPT ![t].pc = "done", ![t].outcome = "threw"]
  /\ Send(tasks[t].conn, MessageFailureCalls(t))
  /\ UNCHANGED <<ctxState, closeListeners, subscriptions, received, handles>>

\* caller.subscription resolved with a Subscription (line 95); the handler
\* is still suspended at line 140.
SubscriptionCreated(t) ==
  /\ Resumable(t)
  /\ tasks[t].type = "subscription"
  /\ handles' = Append(handles, NewHandle(tasks[t].conn, tasks[t].id, t))
  /\ tasks' = [tasks EXCEPT ![t].pc = "settled", ![t].sub = Len(handles) + 1]
  /\ UNCHANGED <<ctxState, readyState, closeListeners, subscriptions, wire,
                 received>>

\* The handler resumes with the Subscription: lines 142-159.
SubscriptionResume(t) ==
  LET c == tasks[t].conn
      id == tasks[t].id
      h == tasks[t].sub
  IN
  /\ tasks[t].pc = "settled"
  /\ subscriptions' = [subscriptions EXCEPT ![c] = RegistryAfterResume(c, id, h)]
  /\ IF SocketClosedCheck(c)
       THEN /\ handles' = HandleAfterClosedCheck(handles, h)
            /\ tasks' = [tasks EXCEPT ![t].pc = "done", ![t].outcome = "dropped"]
            /\ UNCHANGED <<wire, readyState>>
       ELSE IF has(subscriptions[c], id)
         THEN /\ handles' = destroy(handles, h)
              /\ tasks' = [tasks EXCEPT ![t].pc = "done",
                                        ![t].outcome = "duplicate"]
              /\ Send(c, MessageFailureCalls(t))
         ELSE /\ handles' = [handles EXCEPT ![h].listeners = @ + 1]
              /\ tasks' = [tasks EXCEPT ![t].pc = "done",
                                        ![t].outcome = "accepted"]
              /\ UNCHANGED <<wire, readyState>>
  /\ UNCHANGED <<ctxState, closeListeners, received>>

\* A live Subscription produces its next value; every bound data callback
\* calls respond with the request id.
Emit(h) ==
  /\ handles[h].destroyed = 0
  /\ handles[h].emitted < MaxEmit
  /\ handles' = [handles EXCEPT ![h].emitted = @ + 1]
  /\ Send(handles[h].conn,
          Repeat(handles[h].listeners,
                 respond(handles[h].id, handles[h].emitted + 1,
                         handles[h].task, h)))
  /\ UNCHANGED <<ctxState, closeListeners, subscriptions, received, tasks>>

\* The socket closes: the 'close' event runs the attached close listeners.
SocketClose(c) ==
  /\ ctxState[c] # "none"
  /\ readyState[c] # "CLOSED"
  /\ readyState' = [readyState EXCEPT ![c] = "CLOSED"]
  /\ wire' = [wire EXCEPT ![c] = Append(@, CloseEvent)]
  /\ LET r == emitClose(closeListeners[c],
                        [hs |-> handles, subs |-> subscriptions[c]]) IN
       /\ handles' = r.hs
       /\ subscriptions' = [subscriptions EXCEPT ![c] = r.subs]
  /\ UNCHANGED <<ctxState, closeListeners, received, tasks>>

Next ==
  \/ \E c \in Conns : Connect(c) /\ UNCHANGED messageVars
  \/ \E c \in Conns : ContextResolve(c) /\ UNCHANGED messageVars
  \/ \E c \in Conns : ContextReject(c) /\ UNCHANGED messageVars
  \/ \E c \in Conns, raw \in RawMessages :
       ReceiveMessage(c, raw) /\ UNCHANGED messageVars
  \/ \E t \in DOMAIN tasks, v \in ResultValues :
       ProcedureReturn(t, v) /\ UNCHANGED messageVars
  \/ \E t \in DOMAIN tasks : ProcedureThrow(t) /\ UNCHANGED messageVars
  \/ \E t \in DOMAIN tasks : SubscriptionCreated(t) /\ UNCHANGED messageVars
  \/ \E t \in DOMAIN tasks : SubscriptionResume(t) /\ UNCHANGED messageVars
  \/ \E h \in DOMAIN handles : Emit(h) /\ UNCHANGED messageVars
  \/ \E c \in Conns : SocketClose(c) /\ UNCHANGED messageVars

Spec == Init /\ [][Next]_vars

\* ------------------------------------------------- one message, 137-140
\* The path from the raw message to the caller, for every shape of message:
\* parseMessage at line 137, then callProcedure at line 140 unless
\* parseMessage threw.
MaxPaths  == 2     \* procedure paths
MaxInputs == 2     \* input payloads

DecodeInputs ==
  [typeof : {"string", "object"},
   json : {"ok", "invalid"},
   obj : {"object", "array", "null"},
   method : ProcedureTypes \cup {"other"},
   params : {"object", "array", "null"},
   idKind : {"number", "NaN", "Infinity", "string"},
   id : Ids,
   path : {"string", "number"},
   pathValue : 1..MaxPaths,
   input : 1..MaxInputs]

InitDecode ==
  /\ ctxState = [c \in Conns |-> "ready"]
  /\ readyState = [c \in Conns |-> "OPEN"]
  /\ closeListeners = [c \in Conns |-> 0]
  /\ subscriptions = [c \in Conns |-> EmptyRegistry]
  /\ wire = [c \in Conns |-> <<>>]
  /\ received = [c \in Conns |-> 0]
  /\ tasks = <<>>
  /\ handles = <<>>
  /\ message \in DecodeInputs
  /\ parsed = NoInfo
  /\ invoked = <<>>

\* Line 137: parseMessage returns the descriptor or throws out of the
\* listener.
Decode ==
  /\ parsed.pc = "parse"
  /\ parsed' = IF parseMessage(message) = "ok"
               THEN descriptor(message)
               ELSE [NoInfo EXCEPT !.pc = "thrown",
                                   !.verdict = parseMessage(message)]
  /\ UNCHANGED <<message, invoked>>

\* Line 140: callProcedure invokes the caller and the listener awaits it.
Dispatch ==
  /\ parsed.pc = "call"
  /\ IF callProcedure(parsed).op = "throw"
       THEN parsed' = [parsed EXCEPT !.pc = "caught"] /\ UNCHANGED invoked
       ELSE /\ parsed' = [parsed EXCEPT !.pc = "awaiting"]
            /\ invoked' = Append(invoked, callProcedure(parsed))
  /\ UNCHANGED message

NextDecode ==
  \/ Decode /\ UNCHANGED handlerVars
  \/ Dispatch /\ UNCHANGED handlerVars

SpecDecode == InitDecode /\ [][NextDecode]_vars

\* ------------------------------------------------------- vocabulary
\* The entries of wire[c] that are calls of the handler (not the close event).
IsCall(e) == e.ev # "closed"
IsCloseCall(e) == e.ev = "close"
Calls(c) == SelectSeq(wire[c], IsCall)

\* The envelopes sent in answer to request t itself (data pushed by a
\* subscription's callback carries sub # 0 and is not among them).
EnvelopesFor(t) ==
  {k \in DOMAIN wire[tasks[t].conn] :
     /\ wire[tasks[t].conn][k].ev = "send"
     /\ wire[tasks[t].conn][k].task = t
     /\ wire[tasks[t].conn][k].sub = 0}

\* A subscription that is bound to deliver data and not destroyed.
Active(hs, h) == hs[h].listeners >= 1 /\ hs[h].destroyed = 0

\* The handles whose handler has finished (setup completed and line 142-159 ran).
SetUp(h) == tasks[handles[h].task].pc = "done"

\* ----------------------------------------------------------------- C1
\* C1: every finished query or mutation request has exactly one response
\* envelope, carrying the request's id, ok:true when the procedure returned
\* and ok:false when it threw; an unfinished one has none.
C1_ExactlyOneResponseWithId ==
  \A t \in DOMAIN tasks :
    tasks[t].type \in {"query", "mutation"} =>
      LET w == wire[tasks[t].conn]
          E == EnvelopesFor(t)
      IN IF tasks[t].pc = "done"
           THEN /\ Cardinality(E) = 1
                /\ \A k \in E : /\ w[k].hasId
                                /\ w[k].id = tasks[t].id
                                /\ w[k].ok <=> (tasks[t].outcome = "returned")
           ELSE E = {}

\* ----------------------------------------------------------------- C2
\* C2: a malformed message gets exactly one error envelope, no procedure
\* call, no close of the socket, and its failure stays inside the handler.
C2_MalformedGetsOneErrorEnvelope ==
  \A t \in DOMAIN tasks :
    tasks[t].parse # "ok" =>
      /\ Cardinality(EnvelopesFor(t)) = 1
      /\ \A k \in EnvelopesFor(t) : ~wire[tasks[t].conn][k].ok
      /\ tasks[t].outcome # "unhandled"
      /\ tasks[t].sub = 0
      /\ \A k \in DOMAIN wire[tasks[t].conn] :
           ~IsCloseCall(wire[tasks[t].conn][k])

\* ----------------------------------------------------------------- C3
\* C3: a subscription whose setup completes on an open connection with no
\* active subscription for its id becomes active and no envelope is sent at
\* that point; from then on each value it emits is sent as one success
\* envelope with the request's id.
C3_Step ==
  /\ \A t \in DOMAIN tasks :
       ( /\ tasks[t].pc = "settled"
         /\ tasks'[t].pc = "done"
         /\ readyState[tasks[t].conn] = "OPEN"
         /\ ~\E h \in DOMAIN handles :
               /\ handles[h].conn = tasks[t].conn
               /\ handles[h].id = tasks[t].id
               /\ Active(handles, h) )
       => /\ Active(handles', tasks[t].sub)
          /\ handles'[tasks[t].sub].listeners = 1
          /\ wire' = wire
  /\ \A h \in DOMAIN handles :
       (SetUp(h) /\ handles'[h].emitted = handles[h].emitted + 1)
       => wire'[handles[h].conn] =
            Append(wire[handles[h].conn],
                   respond(handles[h].id, handles'[h].emitted,
                           handles[h].task, h))

C3_SubscriptionBecomesActive == [][C3_Step]_vars

\* ----------------------------------------------------------------- C4
\* C4: of two subscriptions with one id set up on an open connection, one
\* stays active and the other is destroyed with exactly one error envelope.
C4_DuplicateRejectedFirstKept ==
  \A h1, h2 \in DOMAIN handles :
    ( /\ h1 # h2
      /\ handles[h1].conn = handles[h2].conn
      /\ handles[h1].id = handles[h2].id
      /\ SetUp(h1) /\ SetUp(h2)
      /\ readyState[handles[h1].conn] = "OPEN" )
    => \E a, b \in {h1, h2} :
         /\ a # b
         /\ Active(handles, a)
         /\ EnvelopesFor(handles[a].task) = {}
         /\ handles[b].destroyed = 1
         /\ handles[b].listeners = 0
         /\ Cardinality(EnvelopesFor(handles[b].task)) = 1
         /\ \A k \in EnvelopesFor(handles[b].task) :
              ~wire[handles[b].conn][k].ok

\* ----------------------------------------------------------------- C5
\* C5: on every connection, for every request id, at most one subscription
\* is active.
C5_AtMostOneActivePerId ==
  \A c \in Conns, i \in Ids :
    Cardinality({h \in DOMAIN handles :
                   /\ handles[h].conn = c
                   /\ handles[h].id = i
                   /\ Active(handles, h)}) <= 1

\* Two subscriptions with one id have both completed setup on a connection
\* that is still open.
C5_Witness ==
  \E h1, h2 \in DOMAIN handles :
    /\ h1 # h2
    /\ handles[h1].conn = handles[h2].conn
    /\ handles[h1].id = handles[h2].id
    /\ SetUp(h1) /\ SetUp(h2)
    /\ readyState[handles[h1].conn] = "OPEN"

C7_NoDataAfterClose ==
  \A c \in Conns :
    \A k1, k2 \in DOMAIN wire[c] :
      (k1 < k2 /\ wire[c][k1].ev = "closed")
      => ~(wire[c][k2].ev = "send" /\ wire[c][k2].sub # 0)

\* A closed connection with one subscription whose handler has finished and
\* that has emitted, and another still live whose setup completes after the
\* close.
C7_Witness ==
  \E c \in Conns :
    /\ readyState[c] = "CLOSED"
    /\ \E h1, h2 \in DOMAIN handles :
         /\ handles[h1].conn = c /\ SetUp(h1) /\ handles[h1].emitted >= 1
         /\ handles[h2].conn = c /\ ~SetUp(h2) /\ handles[h2].destroyed = 0

\* ----------------------------------------------------------------- C8
\* C8: when a subscription's setup completes, the handle is silently dropped
\* (destroyed, not bound, not registered, nothing sent) exactly when the
\* socket is closed.
C8_Step ==
  \A t \in DOMAIN tasks :
    (tasks[t].pc = "settled" /\ tasks'[t].pc = "done")
    => ( ( /\ handles'[tasks[t].sub].destroyed >= 1
           /\ handles'[tasks[t].sub].listeners = 0
           /\ subscriptions' = subscriptions
           /\ wire' = wire )
         <=> readyState[tasks[t].conn] = "CLOSED" )

C8_DroppedIffClosed == [][C8_Step]_vars

\* ----------------------------------------------------------------- C9
\* C9: a connection whose context construction failed has made exactly two
\* calls on its socket, an error envelope then close(1006); one whose
\* context is not yet constructed has made none.
C9_ContextFailure ==
  \A c \in Conns :
    /\ ctxState[c] = "failed"
         => Calls(c) = <<ErrorEnvelope(0), CloseCall(ABNORMAL_CLOSURE)>>
    /\ ctxState[c] \in {"none", "pending"} => Calls(c) = <<>>

\* A connection whose context construction failed, that received a message
\* afterwards and then closed.
C9_Witness ==
  \E c \in Conns :
    /\ ctxState[c] = "failed"
    /\ received[c] >= 1
    /\ readyState[c] = "CLOSED"

\* ---------------------------------------------------------------- C10
\* C10: a step of message processing leaves every socket's readyState
\* alone, calls ws.close on none, keeps every active subscription active and
\* every registry entry in place; ws.close is called only by the step in
\* which context construction fails.
CloseCallCount(w) == Len(SelectSeq(w, IsCloseCall))

C10_Step ==
  /\ (tasks' # tasks \/ received' # received)
     => /\ readyState' = readyState
        /\ \A c \in Conns : CloseCallCount(wire'[c]) = CloseCallCount(wire[c])
        /\ \A h \in DOMAIN handles :
             Active(handles, h) => Active(handles', h)
        /\ \A c \in Conns, i \in Ids :
             has(subscriptions[c], i)
             => subscriptions'[c][i] = subscriptions[c][i]
  /\ \A c \in Conns :
       CloseCallCount(wire'[c]) # CloseCallCount(wire[c])
       => ctxState[c] = "pending" /\ ctxState'[c] = "failed"

C10_MessageNeverCloses == [][C10_Step]_vars

\* An open connection on which one message failed to parse and another's
\* procedure threw.
C10_Witness ==
  \E t1, t2 \in DOMAIN tasks :
    /\ tasks[t1].conn = tasks[t2].conn
    /\ tasks[t1].outcome = "unhandled"
    /\ tasks[t2].outcome = "threw"
    /\ readyState[tasks[t1].conn] = "OPEN"

WellFormedPerSpec(raw) ==
  /\ raw.typeof = "string"
  /\ raw.json = "ok"
  /\ raw.obj = "object"
  /\ raw.method \in {"query", "mutation", "subscription"}
  /\ raw.params = "object"
  /\ raw.idKind = "number"
  /\ raw.path = "string"

C12_DecodeExactlyWellFormed ==
  parsed.pc # "parse" =>
    /\ (parsed.verdict = "ok") <=> WellFormedPerSpec(message)
    /\ parsed.verdict = "ok" =>
         /\ parsed.id = message.id
         /\ parsed.type = message.method
         /\ parsed.input = message.input
         /\ parsed.path = message.pathValue
    /\ parsed.verdict # "ok" => parsed.pc = "thrown" /\ parsed.type = "none"

\* ---------------------------------------------------------------- C13
\* C13: once the listener is past line 140 for a message that decoded, the
\* caller has been invoked exactly once, with the operation named by the
\* request's method and with its path and input; before that, and for a
\* message that failed to decode, it has not been invoked at all.
C13_OneCallerOperation ==
  /\ parsed.pc \in {"parse", "call", "thrown"} => invoked = <<>>
  /\ parsed.pc = "thrown" <=> (parsed.pc # "parse" /\ parseMessage(message) # "ok")
  /\ parsed.pc \notin {"parse", "call", "thrown"} =>
       /\ parsed.pc = "awaiting"
       /\ Len(invoked) = 1
       /\ invoked[1].op = message.method
       /\ invoked[1].path = message.pathValue
       /\ invoked[1].input = message.input

\* A mutation request that decoded and was dispatched.
C13_Witness ==
  /\ parsed.pc = "awaiting"
  /\ message.method = "mutation"
  /\ Len(invoked) = 1

\* ---------------------------------------------------------------- C14
\* C14: a listener that is still waiting for its procedure never holds back
\* a later message of the same connection: the later message can be
\* received, and once it is waiting at line 140 its own procedure can
\* return or throw and be answered.
C14_NotSerialized ==
  /\ \A t1, t2 \in DOMAIN tasks :
       ( /\ t1 < t2
         /\ tasks[t1].conn = tasks[t2].conn
         /\ tasks[t1].pc \in {"calling", "settled"}
         /\ tasks[t2].pc = "calling" )
       => /\ ENABLED ProcedureThrow(t2)
          /\ tasks[t2].type \in {"query", "mutation"}
             => ENABLED (\E v \in ResultValues : ProcedureReturn(t2, v))
          /\ tasks[t2].type = "subscription"
             => ENABLED SubscriptionCreated(t2)
  /\ \A t1 \in DOMAIN tasks :
       ( /\ tasks[t1].pc \in {"calling", "settled"}
         /\ readyState[tasks[t1].conn] = "OPEN"
         /\ TotalReceived(NumConns) < MaxMsgs )
       => ENABLED (\E raw \in RawMessages : ReceiveMessage(tasks[t1].conn, raw))

\* The later of two requests of one connection has been answered while the
\* procedure of the earlier one is still pending.
C14_Witness ==
  \E t1, t2 \in DOMAIN tasks :
    /\ t1 < t2
    /\ tasks[t1].conn = tasks[t2].conn
    /\ tasks[t1].pc = "calling"
    /\ EnvelopesFor(t1) = {}
    /\ tasks[t2].pc = "done"
    /\ tasks[t2].outcome = "returned"
    /\ EnvelopesFor(t2) # {}

\* ---------------------------------------------------------------- C15
\* C15: a connection whose context was constructed has exactly one close
\* listener, however many messages it has received.
C15_OneCloseListener ==
  \A c \in Conns : ctxState[c] = "ready" => closeListeners[c] = 1

\* ---------------------------------------------------------------- C16
\* C16: the close of one connection changes no subscription and no registry
\* of another connection, and a subscription is rejected as a duplicate only
\* for an entry of its own connection's registry.
C16_Step ==
  /\ \A c \in Conns :
       (readyState[c] # "CLOSED" /\ readyState'[c] = "CLOSED")
       => /\ \A d \in Conns \ {c} : subscriptions'[d] = subscriptions[d]
          /\ \A h \in DOMAIN handles :
               handles[h].conn # c => handles'[h] = handles[h]
  /\ \A t \in DOMAIN tasks :
       (tasks[t].pc = "settled" /\ tasks'[t].pc = "done")
       => /\ \A d \in Conns \ {tasks[t].conn} :
               subscriptions'[d] = subscriptions[d]
          /\ tasks'[t].outcome = "duplicate"
             => has(subscriptions[tasks[t].conn], tasks[t].id)

C16_RegistriesPerConnection == [][C16_Step]_vars

\* Two connections used the same subscription id; one has closed with a
\* close listener attached, the subscription of the other is still live.
C16_Witness ==
  \E h1, h2 \in DOMAIN handles :
    /\ handles[h1].conn # handles[h2].conn
    /\ handles[h1].id = handles[h2].id
    /\ handles[h1].destroyed = 0
    /\ SetUp(h2)
    /\ readyState[handles[h2].conn] = "CLOSED"
    /\ closeListeners[handles[h2].conn] >= 1
    /\ readyState[handles[h1].conn] = "OPEN"

\* ---------------------------------------------------------------- C17
\* C17: when the handler of a subscription request finishes, its handle is
\* either destroyed once with no data callback bound, or not destroyed with
\* exactly one data callback bound.
C17_Step ==
  \A t \in DOMAIN tasks :
    (tasks[t].pc = "settled" /\ tasks'[t].pc = "done")
    => \/ /\ handles'[tasks[t].sub].destroyed = 1
          /\ handles'[tasks[t].sub].listeners = 0
       \/ /\ handles'[tasks[t].sub].destroyed = 0
          /\ handles'[tasks[t].sub].listeners = 1

C17_DestroyedOrBound == [][C17_Step]_vars

\* A handle whose handler has finished: destroyed, nothing bound.
C17_Witness ==
  \E h \in DOMAIN handles :
    SetUp(h) /\ handles[h].destroyed = 1 /\ handles[h].listeners = 0

\* ---------------------------------------------------------------- C18
\* C18: a message event on a connection whose context is pending or failed
\* starts no listener, attaches nothing and sends nothing; every listener
\* that exists belongs to a connection whose context was constructed.
C18_Step ==
  /\ \A c \in Conns :
       (received'[c] # received[c] /\ ctxState[c] # "ready")
       => /\ tasks' = tasks
          /\ wire' = wire
          /\ closeListeners' = closeListeners
          /\ handles' = handles
  /\ \A t \in DOMAIN tasks' : ctxState'[tasks'[t].conn] = "ready"

C18_NoCallBeforeContext == [][C18_Step]_vars

\* One connection got a message while its context was pending, another has
\* a failed context and got a message too; neither has a listener run.
C18_Witness ==
  \E c, d \in Conns :
    /\ ctxState[c] = "pending" /\ received[c] >= 1
    /\ ctxState[d] = "failed" /\ received[d] >= 1
    /\ tasks = <<>>

\* ---------------------------------------------------------------- C19
\* C19: every registry is empty after every step, no subscription is ever
\* rejected as a duplicate, and a close event destroys no subscription.
C19_Step ==
  /\ \A c \in Conns : subscriptions'[c] = EmptyRegistry
  /\ \A t \in DOMAIN tasks' : tasks'[t].outcome # "duplicate"
  /\ (\E c \in Conns : readyState[c] # "CLOSED" /\ readyState'[c] = "CLOSED")
     => handles' = handles

C19_RegistryAlwaysEmpty == [][C19_Step]_vars

\* Two subscriptions with one id were set up on a connection that then
\* closed with its close listeners attached.
C19_Witness ==
  \E h1, h2 \in DOMAIN handles :
    /\ h1 # h2
    /\ handles[h1].conn = handles[h2].conn
    /\ handles[h1].id = handles[h2].id
    /\ SetUp(h1) /\ SetUp(h2)
    /\ readyState[handles[h1].conn] = "CLOSED"
    /\ closeListeners[handles[h1].conn] >= 2

====
